---- MODULE Spec2Model ----
(***************************************************************************)
(* Model of the export-archive parser, src/lib/actions/tags.ts:            *)
(* parseChatGPTZip and its helpers normalizeConversation,                  *)
(* normalizeMessage, isAttachmentFile, inferContentType, getBasename and   *)
(* generateIdFromFilename.                                                 *)
(*                                                                         *)
(* Strings (entry names, message text, error messages) are sequences of    *)
(* tokens.  A token stands for a run of characters that contains none of   *)
(* the characters the code looks for ('/', '.', white space), or for       *)
(* exactly one of those characters; the string operations of the code      *)
(* (toLowerCase, endsWith, startsWith, includes, trim, join, split,        *)
(* replace) are computed on the token sequence.                            *)
(*                                                                         *)
(* A JSON value (the result of JSON.parse) is a tagged record:             *)
(*   [t |-> "undefined"]            a missing property                     *)
(*   [t |-> "null"]                                                        *)
(*   [t |-> "bool", b |-> BOOLEAN]                                         *)
(*   [t |-> "num",  n |-> Int]                                             *)
(*   [t |-> "str",  s |-> tokens]                                          *)
(*   [t |-> "arr",  a |-> sequence of JSON values]                         *)
(*   [t |-> "obj",  p |-> sequence of [k |-> key, v |-> JSON value]]       *)
(* The pairs of an object are in the enumeration order of Object.values   *)
(* (document order, the keys of the model are not integer-like).           *)
(***************************************************************************)
EXTENDS Integers, Sequences, FiniteSets, TLC

VARIABLES
    zipBuffer,       \* the argument of parseChatGPTZip
    pc,              \* position of parseChatGPTZip
    files,           \* zipContent.files: the entry names, once loaded
    task,            \* position of the callback of each entry
    conversations,   \* the local array conversations
    attachments,     \* the local array attachments
    warnings,        \* entry names passed to console.warn by the per-entry catch
    outcome,         \* how the returned promise settled
    store,           \* rateLimit.ts: the module's store, key -> {count, resetTime}
    time,            \* rateLimit.ts: what Date.now() returns, in ms
    responses,       \* rateLimit.ts: what the calls of the limiters returned, in order
    request,         \* webhook-handler: the request POST is called with, and the environment
    hookPc,          \* webhook-handler: position of POST
    dbOps,           \* webhook-handler: the prisma operations issued, in order
    hookResponse     \* webhook-handler: the status POST answered with, 0 before

\* the state of the servers: the rate limiters and the webhook handler
serverVars == <<store, time, responses, request, hookPc, dbOps, hookResponse>>
\* the state of a parse
parseVars == <<zipBuffer, pc, files, task, conversations, attachments, warnings, outcome>>

vars == <<zipBuffer, pc, files, task, conversations, attachments, warnings, outcome,
          store, time, responses, request, hookPc, dbOps, hookResponse>>

----------------------------------------------------------------------------
(* Bounds *)

MaxEntries == 2      \* entries of an archive in Init
MaxNameLen == 5      \* tokens of an entry name in InitNames
MaxMsgs    == 2      \* message nodes of a document in InitDocs
MaxCalls   == 4      \* calls of the rate limiters in SpecRate
MaxTicks   == 4      \* steps of the clock in SpecRate

----------------------------------------------------------------------------
(* String operations on token sequences *)

\* String.prototype.toLowerCase on one token
LowerTok(c) ==
    CASE c = "__MACOSX" -> "__macosx"
      [] c = "JSON"     -> "json"
      [] c = "PNG"      -> "png"
      [] OTHER          -> c

toLowerCase(s) == [i \in 1..Len(s) |-> LowerTok(s[i])]

endsWith(s, suf) ==
    /\ Len(s) >= Len(suf)
    /\ SubSeq(s, Len(s) - Len(suf) + 1, Len(s)) = suf

startsWith(s, pre) ==
    /\ Len(s) >= Len(pre)
    /\ SubSeq(s, 1, Len(pre)) = pre

includes(s, pat) ==
    \E i \in 0..(Len(s) - Len(pat)) : SubSeq(s, i + 1, i + Len(pat)) = pat

\* white-space tokens removed by String.prototype.trim
IsSpace(c) == c \in {" ", "\n", "\t"}

RECURSIVE trimStart(_)
trimStart(s) ==
    IF s # <<>> /\ IsSpace(Head(s)) THEN trimStart(Tail(s)) ELSE s

RECURSIVE trimEnd(_)
trimEnd(s) ==
    IF s # <<>> /\ IsSpace(s[Len(s)]) THEN trimEnd(SubSeq(s, 1, Len(s) - 1)) ELSE s

trim(s) == trimEnd(trimStart(s))

\* Array.prototype.join on an array of strings
RECURSIVE join(_, _)
join(parts, sep) ==
    IF parts = <<>> THEN <<>>
    ELSE IF Len(parts) = 1 THEN parts[1]
    ELSE parts[1] \o sep \o join(Tail(parts), sep)

----------------------------------------------------------------------------
(* JSON values *)

Undefined == [t |-> "undefined"]
Null      == [t |-> "null"]
Bool(b)   == [t |-> "bool", b |-> b]
Num(n)    == [t |-> "num", n |-> n]
Str(s)    == [t |-> "str", s |-> s]
Arr(a)    == [t |-> "arr", a |-> a]
Obj(p)    == [t |-> "obj", p |-> p]
KV(k, v)  == [k |-> k, v |-> v]

\* property access v[key]
Get(v, key) ==
    IF v.t = "obj" /\ \E i \in 1..Len(v.p) : v.p[i].k = key
    THEN v.p[CHOOSE i \in 1..Len(v.p) : v.p[i].k = key].v
    ELSE Undefined

\* ToBoolean
Truthy(v) ==
    CASE v.t = "undefined" -> FALSE
      [] v.t = "null"      -> FALSE
      [] v.t = "bool"      -> v.b
      [] v.t = "num"       -> v.n # 0
      [] v.t = "str"       -> v.s # <<>>
      [] OTHER             -> TRUE

\* typeof v === 'object' (true of null, arrays and objects)
TypeofObject(v) == v.t \in {"null", "arr", "obj"}
TypeofString(v) == v.t = "str"
IsArray(v)      == v.t = "arr"

\* a || b
Or(a, b) == IF Truthy(a) THEN a ELSE b

\* a.filter(x => typeof x === 'string')
RECURSIVE FilterStrings(_)
FilterStrings(a) ==
    IF a = <<>> THEN <<>>
    ELSE IF TypeofString(Head(a)) THEN <<Head(a)>> \o FilterStrings(Tail(a))
    ELSE FilterStrings(Tail(a))

\* Object.values
ObjectValues(v) ==
    CASE v.t = "obj" -> [i \in 1..Len(v.p) |-> v.p[i].v]
      [] v.t = "arr" -> v.a
      [] OTHER       -> <<>>

----------------------------------------------------------------------------
(* normalizeMessage, tags.ts 406-453 *)

Roles == {<<"user">>, <<"assistant">>, <<"system">>}

\* typeof v === 'string' && ['user', 'assistant', 'system'].includes(v)
IsRole(v) == TypeofString(v) /\ v.s \in Roles

\* variant of messageRole that looks at the author before the direct role
messageRoleAuthorFirst(msgObj) ==
    LET author == Get(msgObj, "author") IN
    IF Truthy(author) /\ TypeofObject(author) /\ IsRole(Get(author, "role"))
    THEN Get(author, "role").s
    ELSE IF IsRole(Get(msgObj, "role")) THEN Get(msgObj, "role").s
    ELSE <<"user">>

\* "Extract role", tags.ts 419-429
messageRole(msgObj) ==
    LET author == Get(msgObj, "author") IN
    IF IsRole(Get(msgObj, "role")) THEN Get(msgObj, "role").s
    ELSE IF Truthy(author) /\ TypeofObject(author)
         THEN IF IsRole(Get(author, "role")) THEN Get(author, "role").s
              ELSE <<"user">>
    ELSE <<"user">>

\* the strings of an array of string values
StringsOf(a) == [i \in 1..Len(a) |-> a[i].s]

\* variant of messageContent that falls back to the text field when the parts
\* yield an empty string
messageContentTextFallback(msgObj) ==
    LET c == Get(msgObj, "content") IN
    IF TypeofString(c) THEN c.s
    ELSE IF Truthy(c) /\ TypeofObject(c)
         THEN IF /\ Truthy(Get(c, "parts")) /\ IsArray(Get(c, "parts"))
                 /\ join(StringsOf(FilterStrings(Get(c, "parts").a)), <<" ">>) # <<>>
              THEN join(StringsOf(FilterStrings(Get(c, "parts").a)), <<" ">>)
              ELSE IF TypeofString(Get(c, "text")) THEN Get(c, "text").s
              ELSE <<>>
    ELSE <<>>

\* "Extract content", tags.ts 431-441
messageContent(msgObj) ==
    LET c == Get(msgObj, "content") IN
    IF TypeofString(c) THEN c.s
    ELSE IF Truthy(c) /\ TypeofObject(c)
         THEN IF Truthy(Get(c, "parts")) /\ IsArray(Get(c, "parts"))
              THEN join(StringsOf(FilterStrings(Get(c, "parts").a)), <<" ">>)
              ELSE IF TypeofString(Get(c, "text")) THEN Get(c, "text").s
              ELSE <<>>
    ELSE <<>>

\* the timestamp of the returned message, tags.ts 450
messageTimestamp(msgObj) ==
    IF TypeofString(Get(msgObj, "create_time")) THEN Get(msgObj, "create_time")
    ELSE IF TypeofString(Get(msgObj, "timestamp")) THEN Get(msgObj, "timestamp")
    ELSE Undefined

\* the attachments of the returned message, tags.ts 451
messageAttachments(msgObj) ==
    IF IsArray(Get(msgObj, "attachments"))
    THEN FilterStrings(Get(msgObj, "attachments").a)
    ELSE <<>>

\* variant of contentIsEmpty that tests the string without trimming it
contentIsEmptyUntrimmed(content) == content = <<>>

\* the drop rule, tags.ts 443: !content || content.trim().length === 0
contentIsEmpty(content) == content = <<>> \/ Len(trim(content)) = 0

normalizeMessage(msg) ==
    IF ~Truthy(msg) \/ ~TypeofObject(msg) THEN Null
    ELSE IF ~Truthy(Get(msg, "content")) THEN Null
    ELSE IF contentIsEmpty(messageContent(msg)) THEN Null
    ELSE [t           |-> "message",
          role        |-> messageRole(msg),
          content     |-> trim(messageContent(msg)),
          timestamp   |-> messageTimestamp(msg),
          attachments |-> messageAttachments(msg)]

----------------------------------------------------------------------------
(* normalizeConversation, tags.ts 337-401 *)

\* String.prototype.replace(pat, '') : removes the first occurrence of pat
replaceFirst(s, pat) ==
    IF includes(s, pat)
    THEN LET i == CHOOSE j \in 0..(Len(s) - Len(pat)) :
                     /\ SubSeq(s, j + 1, j + Len(pat)) = pat
                     /\ \A k \in 0..(j - 1) : SubSeq(s, k + 1, k + Len(pat)) # pat
         IN  SubSeq(s, 1, i) \o SubSeq(s, i + Len(pat) + 1, Len(s))
    ELSE s

\* replace(/[^a-zA-Z0-9]/g, '_') on one token: the separator tokens become
\* '_', and '_' itself is replaced by '_'
UnderscoreTok(c) == IF c \in {"/", ".", " ", "\n", "\t", "-"} THEN "_" ELSE c

\* tags.ts 522-524
generateIdFromFilename(filename) ==
    LET r == replaceFirst(filename, <<".", "json">>) IN
    [i \in 1..Len(r) |-> UnderscoreTok(r[i])]

\* messageData.forEach over a flat list, tags.ts 360-367
RECURSIVE normalizeList(_)
normalizeList(nodes) ==
    IF nodes = <<>> THEN <<>>
    ELSE IF normalizeMessage(Head(nodes)) # Null
         THEN <<normalizeMessage(Head(nodes))>> \o normalizeList(Tail(nodes))
         ELSE normalizeList(Tail(nodes))

\* variant of normalizeMapping that normalizes the values as they are
RECURSIVE normalizeMappingNoUnwrap(_)
normalizeMappingNoUnwrap(values) ==
    IF values = <<>> THEN <<>>
    ELSE LET msg  == Head(values)
             rest == normalizeMappingNoUnwrap(Tail(values))
         IN  IF Truthy(msg) /\ TypeofObject(msg)
             THEN IF normalizeMessage(msg) # Null
                  THEN <<normalizeMessage(msg)>> \o rest
                  ELSE rest
             ELSE rest

\* Object.values(messageData).forEach over a mapping, tags.ts 368-379
RECURSIVE normalizeMapping(_)
normalizeMapping(values) ==
    IF values = <<>> THEN <<>>
    ELSE LET msg  == Head(values)
             rest == normalizeMapping(Tail(values))
         IN  IF Truthy(msg) /\ TypeofObject(msg)
             THEN IF normalizeMessage(Or(Get(msg, "message"), msg)) # Null
                  THEN <<normalizeMessage(Or(Get(msg, "message"), msg))>> \o rest
                  ELSE rest
             ELSE rest

\* the wrapper test of tags.ts 347
isWrapped(data) ==
    Truthy(Get(data, "conversation")) /\ TypeofObject(Get(data, "conversation"))

\* variant of unwrapConversation that unwraps as long as there is a wrapper
unwrapConversationTwice(data) ==
    IF isWrapped(data)
    THEN IF isWrapped(Get(data, "conversation"))
         THEN Get(Get(data, "conversation"), "conversation")
         ELSE Get(data, "conversation")
    ELSE data

\* the 'conversation' wrapper, tags.ts 344-349
unwrapConversation(data) ==
    IF isWrapped(data)
    THEN Get(data, "conversation")
    ELSE data

\* "Extract and normalize messages", tags.ts 356-379
\* variant of conversationMessages that looks at the mapping before the list
conversationMessagesMappingFirst(conversationData) ==
    LET messageData == Or(Or(Get(conversationData, "mapping"),
                             Get(conversationData, "messages")), Arr(<<>>))
    IN  IF IsArray(messageData) THEN normalizeList(messageData.a)
        ELSE IF Truthy(messageData) /\ TypeofObject(messageData)
             THEN normalizeMapping(ObjectValues(messageData))
        ELSE <<>>

conversationMessages(conversationData) ==
    LET messageData == Or(Or(Get(conversationData, "messages"),
                             Get(conversationData, "mapping")), Arr(<<>>))
    IN  IF IsArray(messageData) THEN normalizeList(messageData.a)
        ELSE IF Truthy(messageData) /\ TypeofObject(messageData)
             THEN normalizeMapping(ObjectValues(messageData))
        ELSE <<>>

\* variant of dropConversation that keeps a conversation without messages
dropConversationNever(messages) == FALSE

\* "Only return conversations with messages", tags.ts 381-384
dropConversation(messages) == Len(messages) = 0

\* variant of conversationId that, when the document has no identifier, tells
\* the conversation finished first from those finished after it
conversationIdByArrival(conversationData, filename) ==
    Or(Or(Get(conversationData, "id"), Get(conversationData, "conversation_id")),
       Str(<<"conversation", "_", IF conversations = <<>> THEN "first" ELSE "later">>))

\* the id of the conversation, tags.ts 352
conversationId(conversationData, filename) ==
    Or(Or(Get(conversationData, "id"), Get(conversationData, "conversation_id")),
       Str(generateIdFromFilename(filename)))

\* variant of conversationTitle that looks at name before title
conversationTitleNameFirst(conversationData) ==
    Or(Or(Get(conversationData, "name"), Get(conversationData, "title")),
       Str(<<"Untitled Conversation">>))

\* the title of the conversation, tags.ts 353
conversationTitle(conversationData) ==
    Or(Or(Get(conversationData, "title"), Get(conversationData, "name")),
       Str(<<"Untitled Conversation">>))

\* variant of conversationCreatedAt that always stamps the time of the parse
conversationCreatedAtNow(conversationData, now) == Str(now)

\* created_at of the conversation, tags.ts 354; now is the string
\* new Date().toISOString() returns
conversationCreatedAt(conversationData, now) ==
    Or(Or(Get(conversationData, "create_time"), Get(conversationData, "created_at")),
       Str(now))

\* updated_at of the conversation, tags.ts 391
conversationUpdatedAt(conversationData) ==
    Or(Get(conversationData, "update_time"), Get(conversationData, "updated_at"))

\* now is the string new Date().toISOString() returns when the function runs.
\* Nothing in the try block throws on a parsed JSON value, so the catch of
\* tags.ts 397-400 is never entered.
normalizeConversation(data, filename, now) ==
    IF ~Truthy(data) \/ ~TypeofObject(data) THEN Null
    ELSE LET conversationData == unwrapConversation(data)
             messages == conversationMessages(conversationData)
         IN  IF dropConversation(messages) THEN Null
             ELSE [t          |-> "conversation",
                   id         |-> conversationId(conversationData, filename),
                   title      |-> conversationTitle(conversationData),
                   messages   |-> messages,
                   created_at |-> conversationCreatedAt(conversationData, now),
                   updated_at |-> conversationUpdatedAt(conversationData),
                   metadata   |-> [originalFilename |-> filename,
                                   messageCount     |-> Len(messages)]]

----------------------------------------------------------------------------
(* The classification of an entry name *)

\* variant of isConversationFile without the root-level test
isConversationFileAnywhere(filename) ==
    endsWith(toLowerCase(filename), <<".", "json">>)

\* the test of tags.ts 284
isConversationFile(filename) ==
    /\ endsWith(toLowerCase(filename), <<".", "json">>)
    /\ ~includes(filename, <<"/">>)

\* tags.ts 472-477
attachmentExtensions ==
    { <<".", e>> : e \in {"pdf", "doc", "docx", "txt", "md",
                          "jpg", "jpeg", "png", "gif", "webp",
                          "mp4", "mov", "avi", "mp3", "wav",
                          "zip", "tar", "gz", "csv", "xlsx"} }

\* "Skip system/meta files", tags.ts 467
isSystemFile(lowerFilename) ==
    includes(lowerFilename, <<"__macosx">>) \/ startsWith(lowerFilename, <<".">>)

\* tags.ts 458-480
isAttachmentFile(filename) ==
    LET lowerFilename == toLowerCase(filename) IN
    IF endsWith(lowerFilename, <<".", "json">>) THEN FALSE
    ELSE IF isSystemFile(lowerFilename) THEN FALSE
    ELSE \E ext \in attachmentExtensions : endsWith(lowerFilename, ext)

\* the part of s after its last sep token (s itself if it has none):
\* s.split(sep).pop()
RECURSIVE lastSegment(_, _)
lastSegment(s, sep) ==
    IF s = <<>> THEN <<>>
    ELSE IF s[Len(s)] = sep THEN <<>>
    ELSE lastSegment(SubSeq(s, 1, Len(s) - 1), sep) \o <<s[Len(s)]>>

\* tags.ts 488-507
mimeTypes ==
    [e \in {"pdf", "doc", "docx", "txt", "md", "jpg", "jpeg", "png", "gif",
            "webp", "mp4", "mov", "avi", "mp3", "wav", "zip", "csv", "xlsx"} |->
       CASE e = "pdf"  -> "application/pdf"
         [] e = "doc"  -> "application/msword"
         [] e = "docx" -> "application/vnd.openxmlformats-officedocument.wordprocessingml.document"
         [] e = "txt"  -> "text/plain"
         [] e = "md"   -> "text/markdown"
         [] e = "jpg"  -> "image/jpeg"
         [] e = "jpeg" -> "image/jpeg"
         [] e = "png"  -> "image/png"
         [] e = "gif"  -> "image/gif"
         [] e = "webp" -> "image/webp"
         [] e = "mp4"  -> "video/mp4"
         [] e = "mov"  -> "video/quicktime"
         [] e = "avi"  -> "video/x-msvideo"
         [] e = "mp3"  -> "audio/mpeg"
         [] e = "wav"  -> "audio/wav"
         [] e = "zip"  -> "application/zip"
         [] e = "csv"  -> "text/csv"
         [] e = "xlsx" -> "application/vnd.openxmlformats-officedocument.spreadsheetml.sheet"]

\* variant of inferContentType without the fallback: the lookup result as is
inferContentTypeNoFallback(filename) ==
    LET ext == lastSegment(toLowerCase(filename), ".") IN
    IF Len(ext) = 1 /\ ext[1] \in DOMAIN mimeTypes THEN mimeTypes[ext[1]]
    ELSE "undefined"

\* tags.ts 485-510
inferContentType(filename) ==
    LET ext == lastSegment(toLowerCase(filename), ".") IN
    IF Len(ext) = 1 /\ ext[1] \in DOMAIN mimeTypes THEN mimeTypes[ext[1]]
    ELSE "application/octet-stream"

\* variant of getBasename that keeps the directories
getBasenameWholePath(filepath) == filepath

\* tags.ts 515-517: filepath.split('/').pop() || filepath
getBasename(filepath) ==
    IF lastSegment(filepath, "/") # <<>> THEN lastSegment(filepath, "/") ELSE filepath

----------------------------------------------------------------------------
(* The argument of parseChatGPTZip *)

\* what JSON.parse throws on a text that is not JSON
SyntaxError == [t |-> "SyntaxError"]

\* An entry of the container: dir is file.dir, readable tells whether
\* file.async resolves (it rejects on a payload that cannot be inflated),
\* bytes is what file.async('nodebuffer') resolves to and json is what
\* JSON.parse makes of the text file.async('text') resolves to.
DirEntry       == [dir |-> TRUE, readable |-> TRUE, bytes |-> <<>>, json |-> SyntaxError]
CorruptEntry   == [dir |-> FALSE, readable |-> FALSE, bytes |-> <<>>, json |-> SyntaxError]
FileEntry(b, j) == [dir |-> FALSE, readable |-> TRUE, bytes |-> b, json |-> j]

NullBuffer      == [kind |-> "null"]
UndefinedBuffer == [kind |-> "undefined"]
EmptyBuffer     == [kind |-> "buffer", length |-> 0]
\* a non-empty buffer zip.loadAsync rejects with an Error of message e
BadBuffer(e)    == [kind |-> "buffer", length |-> 1, error |-> e]
\* a non-empty buffer zip.loadAsync opens: entries maps each entry name to its entry
Archive(entries) == [kind |-> "buffer", length |-> 1, entries |-> entries]

IsArchive(b) == b.kind = "buffer" /\ b.length > 0 /\ "entries" \in DOMAIN b

\* The messages of the errors jszip's loadAsync rejects with (zipEntries.js):
\* no end-of-central-directory record in a buffer that does not start with a
\* local file header; the same in a buffer that does (a truncated archive);
\* a bad signature inside the central directory.
LoadErrors ==
    { <<"Can't find end of central directory", " : is this a zip file ?">>,
      <<"Corrupted zip: ", "can't find end of central directory">>,
      <<"Corrupted zip or bug: ", "unexpected signature">> }

InvalidBuffers == {NullBuffer, UndefinedBuffer, EmptyBuffer}
                     \cup { BadBuffer(e) : e \in LoadErrors }

----------------------------------------------------------------------------
(* The inputs Init draws from *)

\* the strings new Date().toISOString() can return during a parse
ClockValues == {<<"2026-01-01T00:00:00.000Z">>, <<"2026-01-01T00:00:00.001Z">>}

PngBytes  == <<137, 80, 78, 71>>
JsonBytes == <<123, 125>>

\* a message node {role, content}
Msg(role, content) == Obj(<<KV("role", Str(<<role>>)), KV("content", content)>>)

\* a document in the flat-list shape
FlatDoc ==
    Obj(<<KV("id", Str(<<"conv-1">>)),
          KV("title", Str(<<"Test", " ", "Conversation">>)),
          KV("create_time", Str(<<"2025-01-01T00:00:00Z">>)),
          KV("messages", Arr(<<Msg("user", Str(<<"Hello">>)),
                               Msg("assistant",
                                   Obj(<<KV("parts", Arr(<<Str(<<"Hi">>), Str(<<"there">>)>>))>>))>>))>>)

\* a document in the mapping shape: a root node without message and one message
MappingDoc ==
    Obj(<<KV("title", Str(<<"Mapped">>)),
          KV("mapping",
             Obj(<<KV("n1", Obj(<<KV("id", Str(<<"n1">>)), KV("message", Null)>>)),
                   KV("n2", Obj(<<KV("id", Str(<<"n2">>)),
                                  KV("message",
                                     Obj(<<KV("author", Obj(<<KV("role", Str(<<"assistant">>))>>)),
                                           KV("content", Obj(<<KV("parts", Arr(<<Str(<<"Hello">>)>>))>>))>>))>>))>>))>>)

\* a document whose only message has white-space content
BlankDoc ==
    Obj(<<KV("id", Str(<<"conv-2">>)),
          KV("messages", Arr(<<Msg("user", Str(<<" ", "\n">>))>>))>>)

EntryNames ==
    { <<"conv", ".", "json">>,
      <<"chat", ".", "JSON">>,
      <<"sub", "/", "doc", ".", "json">>,
      <<".", "hidden", ".", "json">>,
      <<"images", "/">>,
      <<"images", "/", "pic", ".", "PNG">>,
      <<"images", "/", ".", "thumb", ".", "png">>,
      <<".", "cache", "/", "pic", ".", "png">>,
      <<"data", ".", "tar", ".", "gz">>,
      <<"notes", ".", "xyz">> }

FilePayloads ==
    { CorruptEntry,
      FileEntry(PngBytes, SyntaxError),
      FileEntry(JsonBytes, FlatDoc),
      FileEntry(JsonBytes, MappingDoc),
      FileEntry(JsonBytes, BlankDoc) }

\* jszip marks as a directory exactly the entries whose name ends in '/'
PayloadsOf(name, payloads) ==
    IF endsWith(name, <<"/">>) THEN {DirEntry} ELSE payloads

\* the entry tables with the entry names N, each with a payload of payloads
EntriesOver(N, payloads) ==
    { f \in [N -> payloads \cup {DirEntry}] : \A n \in N : f[n] \in PayloadsOf(n, payloads) }

\* every entry name of at most MaxNameLen tokens
NameTokens == {"/", ".", "a", "json", "PNG", "__MACOSX"}
AllNames   == UNION { [1..n -> NameTokens] : n \in 1..MaxNameLen }

\* the payloads of the one-entry archives of InitNames
NamePayloads == {FileEntry(PngBytes, SyntaxError), FileEntry(JsonBytes, FlatDoc)}

\* the archive of the single entry name with payload p
OneEntry(name, p) == Archive([n \in {name} |-> p])

\* the object with the given pairs, without those of an undefined value
ObjOf(pairs) == Obj(SelectSeq(pairs, LAMBDA kv : kv.v # Undefined))

Hi    == Str(<<"Hi">>)
There == Str(<<"there">>)
Blank == Str(<<" ">>)

\* values of the role field and of the author field of a message node
RoleValues   == {Undefined, Str(<<"assistant">>), Str(<<"tool">>)}
AuthorValues == {Undefined,
                 Obj(<<KV("role", Str(<<"system">>))>>),
                 Obj(<<KV("role", Str(<<"tool">>))>>)}

\* values of the content field of a message node
ContentValues ==
    { Undefined, Null, Num(5), Str(<<>>), Blank, Str(<<" ", "Hi", "\n">>),
      Arr(<<Hi>>),
      Obj(<<KV("text", Str(<<"text">>))>>), Obj(<<KV("text", Blank)>>),
      Obj(<<KV("text", Num(5))>>),
      Obj(<<KV("parts", Arr(<<Hi, There>>))>>),
      Obj(<<KV("parts", Arr(<<Hi, Num(1), There>>))>>),
      Obj(<<KV("parts", Arr(<<Hi, There>>)), KV("text", Str(<<"text">>))>>) }
    \cup { ObjOf(<<KV("parts", parts), KV("text", text)>>) :
              parts \in {Arr(<<>>), Arr(<<Num(1)>>), Arr(<<Blank>>), Str(<<"x">>)},
              text \in {Undefined, Str(<<"text">>)} }

Node(role, author, content) ==
    ObjOf(<<KV("role", role), KV("author", author), KV("content", content)>>)

\* the message nodes of the documents of InitDocs
MessageNodes ==
    { Node(role, author, Str(<<"Hello">>)) : role \in RoleValues, author \in AuthorValues }
    \cup { Node(Str(<<"assistant">>), Undefined, content) : content \in ContentValues }
    \cup { Null, Str(<<"Hello">>), Node(Undefined, Str(<<"bot">>), Str(<<"Hello">>)) }

\* the values of a mapping: a node wrapped under 'message', a bare node,
\* a wrapper without message, and values that are no wrapper
WrappedNodes ==
    { Node(Undefined, Obj(<<KV("role", Str(<<"assistant">>))>>), content) :
         content \in {Obj(<<KV("parts", Arr(<<Hi, There>>))>>), Obj(<<KV("parts", Arr(<<Blank>>))>>),
                      Str(<<"Hello">>), Str(<<>>)} }
MappingValues ==
    { Obj(<<KV("id", Str(<<"node">>)), KV("message", n)>>) : n \in WrappedNodes \cup {Null} }
    \cup WrappedNodes \cup {Null, Str(<<"Hello">>)}

\* the keys of a mapping
NodeKey(i) == <<"node-", i>>
MappingOf(values) == Obj([i \in 1..Len(values) |-> KV(NodeKey(i), values[i])])

\* the bodies of the documents of InitDocs: a flat list or a mapping
FlatBody(nodes) ==
    Obj(<<KV("title", Str(<<"Doc">>)), KV("create_time", Str(<<"2025-01-01T00:00:00Z">>)),
          KV("messages", Arr(nodes))>>)
MappingBody(values) ==
    Obj(<<KV("title", Str(<<"Doc">>)), KV("create_time", Str(<<"2025-01-01T00:00:00Z">>)),
          KV("mapping", MappingOf(values))>>)

\* a body that has a flat list and a mapping of one message as well
BothBody(nodes) ==
    Obj(<<KV("title", Str(<<"Doc">>)), KV("create_time", Str(<<"2025-01-01T00:00:00Z">>)),
          KV("messages", Arr(nodes)),
          KV("mapping", MappingOf(<<Obj(<<KV("id", Str(<<"node">>)),
                                          KV("message", Msg("user", Str(<<"From mapping">>)))>>)>>))>>)

\* documents that are valid JSON and no object: null, 42, "text", true
ScalarDocs == {Null, Num(42), Str(<<"text">>), Bool(TRUE)}

\* a document, bare or under the 'conversation' wrapper
WrapperOf(body) == Obj(<<KV("conversation", body)>>)

\* the values of the header fields of the documents of InitMeta; a field
\* whose value is Undefined is left out of the document
IdValues             == {Undefined, Str(<<"conv-1">>), Str(<<>>), Num(42)}
ConversationIdValues == {Undefined, Str(<<"alt-1">>)}
TitleValues          == {Undefined, Str(<<"Title">>), Str(<<>>)}
ConvNameValues       == {Undefined, Str(<<"Name">>)}
CreateTimeValues     == {Undefined, Str(<<"2025-01-01T00:00:00Z">>), Num(1700000000)}
CreatedAtValues      == {Undefined, Str(<<"2024-06-01 10:00">>)}
UpdateTimeValues     == {Undefined, Str(<<"2025-01-02T00:00:00Z">>)}
UpdatedAtValues      == {Undefined, Str(<<"2024-06-02 10:00">>)}
MessagesValues       == {Undefined, Arr(<<Msg("user", Str(<<"Hello">>))>>)}

\* a document that another document holds under its own 'conversation' key
DeepDoc ==
    Obj(<<KV("id", Str(<<"deep-id">>)), KV("title", Str(<<"Deep">>)),
          KV("create_time", Str(<<"2023-01-01T00:00:00Z">>)),
          KV("update_time", Str(<<"2023-01-02T00:00:00Z">>)),
          KV("messages", Arr(<<Msg("user", Str(<<"Deep">>))>>))>>)
NestedValues == {Undefined, DeepDoc}

\* a wrapper that has every header field and a message list of its own
OuterOf(inner) ==
    Obj(<<KV("id", Str(<<"outer-id">>)), KV("conversation_id", Str(<<"outer-alt">>)),
          KV("title", Str(<<"Outer">>)), KV("name", Str(<<"Outer name">>)),
          KV("create_time", Str(<<"2022-01-01T00:00:00Z">>)),
          KV("created_at", Str(<<"2022-01-01 10:00">>)),
          KV("update_time", Str(<<"2022-01-02T00:00:00Z">>)),
          KV("updated_at", Str(<<"2022-01-02 10:00">>)),
          KV("messages", Arr(<<Msg("user", Str(<<"Outer">>))>>)),
          KV("conversation", inner)>>)

\* the names of the root documents of InitMeta
MetaNames == {<<"my", "-", "chat", ".", "json">>, <<"chat", ".", "JSON">>}

----------------------------------------------------------------------------
(* parseChatGPTZip, tags.ts 259-332 *)

Pending        == [status |-> "pending"]
Rejected(e)    == [status |-> "rejected", error |-> e]
\* the returned object; its conversations and attachments are the arrays
\* conversations and attachments themselves
Fulfilled(m)   == [status |-> "fulfilled", metadata |-> m]

\* variants of validationError that do not tell the two cases apart
validationErrorAlwaysInvalid(buf) == <<"Invalid input">>
validationErrorAlwaysEmpty(buf) == <<"Empty ZIP file">>

\* "Input validation", tags.ts 261-263
validationError(buf) ==
    IF buf.kind \in {"null", "undefined"} THEN <<"Invalid input">>
    ELSE <<"Empty ZIP file">>

Validate ==
    /\ pc = "validate"
    /\ IF zipBuffer.kind \in {"null", "undefined"} \/ zipBuffer.length = 0
       THEN /\ outcome' = Rejected(validationError(zipBuffer))
            /\ pc' = "done"
       ELSE /\ pc' = "load"
            /\ UNCHANGED outcome
    /\ UNCHANGED <<zipBuffer, files, task, conversations, attachments, warnings>>
    /\ UNCHANGED serverVars

\* the outer catch, tags.ts 323-331
rethrown(message) ==
    IF \/ includes(message, <<"Invalid or unsupported zip format">>)
       \/ includes(message, <<"Can't find end of central directory">>)
    THEN <<"Invalid ZIP file">>
    ELSE message

\* zip.loadAsync rejects, tags.ts 267 and 323-331
LoadFail ==
    /\ pc = "load"
    /\ ~IsArchive(zipBuffer)
    /\ outcome' = Rejected(rethrown(zipBuffer.error))
    /\ pc' = "done"
    /\ UNCHANGED <<zipBuffer, files, task, conversations, attachments, warnings>>
    /\ UNCHANGED serverVars

\* zip.loadAsync resolves, tags.ts 266-274
LoadAsync ==
    /\ pc = "load"
    /\ IsArchive(zipBuffer)
    /\ files' = DOMAIN zipBuffer.entries
    /\ task' = [f \in DOMAIN zipBuffer.entries |-> "start"]
    /\ conversations' = <<>>
    /\ attachments' = <<>>
    /\ pc' = "tasks"
    /\ UNCHANGED <<zipBuffer, warnings, outcome>>
    /\ UNCHANGED serverVars

\* where the callback of an entry goes before its first await, tags.ts 275-297
routeOf(filename, file) ==
    IF file.dir THEN "done"
    ELSE IF isConversationFile(filename) THEN "text"
    ELSE IF isAttachmentFile(filename) THEN "nodebuffer"
    ELSE "done"

\* The callback of entry filename runs up to its first await.  map() runs
\* these prefixes in key order before any callback resumes; here they may
\* also run between resumptions, which adds interleavings and removes none.
TaskStart(filename) ==
    /\ pc = "tasks"
    /\ task[filename] = "start"
    /\ task' = [task EXCEPT ![filename] = routeOf(filename, zipBuffer.entries[filename])]
    /\ UNCHANGED <<zipBuffer, pc, files, conversations, attachments, warnings, outcome>>
    /\ UNCHANGED serverVars

\* what the per-entry catch does with a failure of entry filename, tags.ts 307-310
catchEntry(filename, warned) == warned \cup {filename}

\* variant of ResumeConversation without the per-entry try/catch: the failure
\* rejects the promise of the callback, and with it Promise.all
ResumeConversationUncaught(filename) ==
    /\ task[filename] = "text"
    /\ LET file == zipBuffer.entries[filename] IN
       IF ~file.readable \/ file.json = SyntaxError
       THEN /\ outcome' = Rejected(<<"SyntaxError">>)
            /\ pc' = "done"
            /\ UNCHANGED conversations
       ELSE /\ \E now \in ClockValues :
                 LET conversation == normalizeConversation(file.json, filename, now) IN
                 conversations' = IF conversation # Null
                                  THEN Append(conversations, conversation)
                                  ELSE conversations
            /\ UNCHANGED <<pc, outcome>>
    /\ task' = [task EXCEPT ![filename] = "done"]
    /\ UNCHANGED <<zipBuffer, files, attachments, warnings>>
    /\ UNCHANGED serverVars

\* variant of ResumeConversation that assigns a new array holding its own
\* conversation instead of pushing onto the shared one
ResumeConversationOverwrite(filename) ==
    /\ task[filename] = "text"
    /\ LET file == zipBuffer.entries[filename] IN
       IF ~file.readable \/ file.json = SyntaxError
       THEN /\ warnings' = catchEntry(filename, warnings)
            /\ UNCHANGED conversations
       ELSE /\ \E now \in ClockValues :
                 LET conversation == normalizeConversation(file.json, filename, now) IN
                 conversations' = IF conversation # Null
                                  THEN <<conversation>>
                                  ELSE conversations
            /\ UNCHANGED warnings
    /\ task' = [task EXCEPT ![filename] = "done"]
    /\ UNCHANGED <<zipBuffer, pc, files, attachments, outcome>>
    /\ UNCHANGED serverVars

\* the callback resumes after file.async('text'), tags.ts 286-294 and 307-310
ResumeConversation(filename) ==
    /\ task[filename] = "text"
    /\ LET file == zipBuffer.entries[filename] IN
       IF ~file.readable \/ file.json = SyntaxError
       THEN /\ warnings' = catchEntry(filename, warnings)
            /\ UNCHANGED conversations
       ELSE /\ \E now \in ClockValues :
                 LET conversation == normalizeConversation(file.json, filename, now) IN
                 conversations' = IF conversation # Null
                                  THEN Append(conversations, conversation)
                                  ELSE conversations
            /\ UNCHANGED warnings
    /\ task' = [task EXCEPT ![filename] = "done"]
    /\ UNCHANGED <<zipBuffer, pc, files, attachments, outcome>>
    /\ UNCHANGED serverVars

\* the record of tags.ts 298-304
attachmentOf(filename, content) ==
    [name         |-> getBasename(filename),
     content      |-> content,
     contentType  |-> inferContentType(filename),
     size         |-> Len(content),
     relativePath |-> filename]

\* variant of ResumeAttachment that pushes the record of the entry twice
ResumeAttachmentTwice(filename) ==
    /\ task[filename] = "nodebuffer"
    /\ LET file == zipBuffer.entries[filename] IN
       IF ~file.readable
       THEN /\ warnings' = catchEntry(filename, warnings)
            /\ UNCHANGED attachments
       ELSE /\ attachments' = attachments \o <<attachmentOf(filename, file.bytes),
                                               attachmentOf(filename, file.bytes)>>
            /\ UNCHANGED warnings
    /\ task' = [task EXCEPT ![filename] = "done"]
    /\ UNCHANGED <<zipBuffer, pc, files, conversations, outcome>>
    /\ UNCHANGED serverVars

\* the callback resumes after file.async('nodebuffer'), tags.ts 297-310
ResumeAttachment(filename) ==
    /\ task[filename] = "nodebuffer"
    /\ LET file == zipBuffer.entries[filename] IN
       IF ~file.readable
       THEN /\ warnings' = catchEntry(filename, warnings)
            /\ UNCHANGED attachments
       ELSE /\ attachments' = Append(attachments, attachmentOf(filename, file.bytes))
            /\ UNCHANGED warnings
    /\ task' = [task EXCEPT ![filename] = "done"]
    /\ UNCHANGED <<zipBuffer, pc, files, conversations, outcome>>
    /\ UNCHANGED serverVars

\* variant of resultMetadata that counts the files and leaves the directories out
resultMetadataFilesOnly(zipFiles, convs, atts) ==
    [totalFiles             |-> Cardinality({f \in zipFiles : ~zipBuffer.entries[f].dir}),
     processedConversations |-> Len(convs),
     processedAttachments   |-> Len(atts)]

\* the metadata of the result, tags.ts 317-321
resultMetadata(zipFiles, convs, atts) ==
    [totalFiles             |-> Cardinality(zipFiles),
     processedConversations |-> Len(convs),
     processedAttachments   |-> Len(atts)]

\* variant of Return without the await of Promise.all: the result is built
\* as soon as map has run every callback up to its first await
ReturnWithoutAwait ==
    /\ pc = "tasks"
    /\ \A f \in files : task[f] # "start"
    /\ outcome' = Fulfilled(resultMetadata(files, conversations, attachments))
    /\ pc' = "done"
    /\ UNCHANGED <<zipBuffer, files, task, conversations, attachments, warnings>>
    /\ UNCHANGED serverVars

\* Promise.all resolves and the result is returned, tags.ts 312-322
Return ==
    /\ pc = "tasks"
    /\ \A f \in files : task[f] = "done"
    /\ outcome' = Fulfilled(resultMetadata(files, conversations, attachments))
    /\ pc' = "done"
    /\ UNCHANGED <<zipBuffer, files, task, conversations, attachments, warnings>>
    /\ UNCHANGED serverVars

Next ==
    \/ Validate
    \/ LoadFail
    \/ LoadAsync
    \/ \E f \in files : TaskStart(f)
    \/ \E f \in files : ResumeConversation(f)
    \/ \E f \in files : ResumeAttachment(f)
    \/ Return

\* no limiter has been called and no webhook has arrived: the store is as
\* the module creates it, rateLimit.ts 19
RateIdle ==
    /\ store = <<>>
    /\ time = 0
    /\ responses = <<>>
HookIdle ==
    /\ request = [kind |-> "none"]
    /\ hookPc = "idle"
    /\ dbOps = <<>>
    /\ hookResponse = 0
ServersIdle == RateIdle /\ HookIdle

\* the state at the call of parseChatGPTZip(buf)
Called(buf) ==
    /\ zipBuffer = buf
    /\ pc = "validate"
    /\ files = {}
    /\ task = <<>>
    /\ conversations = <<>>
    /\ attachments = <<>>
    /\ warnings = {}
    /\ outcome = Pending
    /\ ServersIdle

----------------------------------------------------------------------------
(* The rate limiters, src/lib/middleware/rateLimit.ts *)

\* the limiters the routes create, uploads/route.ts 6 and
\* webhook/clerk/route.ts 5
Limiters == {"upload", "webhook"}

\* their configurations, rateLimit.ts 134-145, scaled down: the upload
\* limiter admits fewer requests over a longer window than the webhook one
maxRequests == [upload |-> 2, webhook |-> 3]
windowMs    == [upload |-> 1500, webhook |-> 1000]

\* the clock advances by half a second at a time
TickMs == 500

\* the keys keyGenerator gives to requests, rateLimit.ts 82-112: a user id,
\* and the key of every request that has no identifying header
Keys == {"user:1", "ip:unknown"}

\* Math.ceil(a / b) for b > 0
Ceil(a, b) == (a + b - 1) \div b

\* cleanupExpiredEntries, rateLimit.ts 178-184
cleanupExpiredEntries(st, now) ==
    [k \in {key \in DOMAIN st : ~(st[key].resetTime < now)} |-> st[k]]

\* variant of entryOf whose new entry has no window ahead of it
entryOfNoWindow(st, key, now, limiter) ==
    IF key \in DOMAIN st THEN st[key]
    ELSE [count |-> 0, resetTime |-> now]

\* store[key] || { count: 0, resetTime: now + windowMs }, rateLimit.ts 41
entryOf(st, key, now, limiter) ==
    IF key \in DOMAIN st THEN st[key]
    ELSE [count |-> 0, resetTime |-> now + windowMs[limiter]]

\* "Reset if window has expired", rateLimit.ts 44-47
resetIfExpired(entry, now, limiter) ==
    IF now > entry.resetTime
    THEN [count |-> 0, resetTime |-> now + windowMs[limiter]]
    ELSE entry

\* resetIn, rateLimit.ts 51
resetIn(entry, now) == Ceil(entry.resetTime - now, 1000)

\* one call of the function createRateLimit returns, rateLimit.ts 33-76:
\* the store it leaves and what it returns. The function has no await, so
\* a call runs from its first line to its return without another call in
\* between. The entry taken from the store is the stored object itself, so
\* resetting it changes the store even when the call is then rejected.
rateLimit(st, limiter, key, now) ==
    LET cleaned == cleanupExpiredEntries(st, now)
        entry   == resetIfExpired(entryOf(cleaned, key, now, limiter), now, limiter)
        kept    == IF key \in DOMAIN cleaned
                   THEN [cleaned EXCEPT ![key] = entry]
                   ELSE cleaned
    IN  IF entry.count >= maxRequests[limiter]
        THEN [store    |-> kept,
              response |-> [limiter |-> limiter, key |-> key, at |-> now,
                            admitted |-> FALSE, status |-> 429,
                            retryAfter |-> resetIn(entry, now),
                            count |-> entry.count, resetTime |-> entry.resetTime]]
        ELSE [store    |-> [k \in DOMAIN cleaned \cup {key} |->
                              IF k = key
                              THEN [count |-> entry.count + 1, resetTime |-> entry.resetTime]
                              ELSE cleaned[k]],
              response |-> [limiter |-> limiter, key |-> key, at |-> now,
                            admitted |-> TRUE, status |-> 0, retryAfter |-> 0,
                            count |-> entry.count + 1, resetTime |-> entry.resetTime]]

\* a request with key key reaches the route of limiter limiter
Call(limiter, key) ==
    /\ Len(responses) < MaxCalls
    /\ LET r == rateLimit(store, limiter, key, time) IN
       /\ store' = r.store
       /\ responses' = Append(responses, r.response)
    /\ UNCHANGED <<time, request, hookPc, dbOps, hookResponse>>
    /\ UNCHANGED parseVars

\* time passes
Tick ==
    /\ time < MaxTicks * TickMs
    /\ time' = time + TickMs
    /\ UNCHANGED <<store, responses, request, hookPc, dbOps, hookResponse>>
    /\ UNCHANGED parseVars

NextRate ==
    \/ \E limiter \in Limiters, key \in Keys : Call(limiter, key)
    \/ Tick

----------------------------------------------------------------------------
(* The Clerk webhook handler, src/app/api/clerk/webhook-handler/route.ts,  *)
(* and verifyClerkWebhook, src/lib/utils/verifyClerkWebhook.ts             *)

\* The base64 digest of an HMAC-SHA256 is the record of what was signed and
\* with which key: two digests are equal exactly when key, timestamp and
\* body are. A v1 value that is no digest of anything the handler computes
\* is a digest under the key "junk", which is nobody's secret.
Digest(key, timestamp, body) == [key |-> key, timestamp |-> timestamp, body |-> body]

\* a part of the svix-signature header, between two commas
TPart(timestamp) == [prefix |-> "t=", text |-> timestamp, digest |-> Digest("", "", "")]
V1Part(digest)   == [prefix |-> "v1=", text |-> "", digest |-> digest]

\* an environment variable: unset (or empty), or a secret with or without
\* the prefix whsec_
Unset          == [set |-> FALSE, prefixed |-> FALSE, key |-> ""]
Secret(key)    == [set |-> TRUE, prefixed |-> FALSE, key |-> key]
Whsec(key)     == [set |-> TRUE, prefixed |-> TRUE, key |-> key]

\* process.env.CLERK_WEBHOOK_SECRET || process.env.CLERK_PRODUCTION_WEBHOOK_SECRET,
\* route.ts 34
webhookSecret(env) == IF env.dev.set THEN env.dev ELSE env.prod

\* secret.startsWith('whsec_') ? secret.slice(6) : secret, verifyClerkWebhook.ts 34
cleanSecret(secret) == secret.key

\* variant of verifyClerkWebhook that takes any header that has a timestamp
\* and a v1 signature
verifyClerkWebhookUnchecked(rawBody, parts, secret) ==
    /\ Len(parts) >= 2
    /\ \E i \in 1..Len(parts) : parts[i].prefix = "t="
    /\ \E i \in 1..Len(parts) : parts[i].prefix = "v1="

\* verifyClerkWebhook.ts 11-62; parts is svixSignature.split(',')
verifyClerkWebhook(rawBody, parts, secret) ==
    IF Len(parts) < 2 THEN FALSE
    ELSE IF ~\E i \in 1..Len(parts) : parts[i].prefix = "t=" THEN FALSE
    ELSE LET timestampPart == parts[CHOOSE i \in 1..Len(parts) :
                                       /\ parts[i].prefix = "t="
                                       /\ \A j \in 1..(i - 1) : parts[j].prefix # "t="]
             v1Signatures == SelectSeq(parts, LAMBDA p : p.prefix = "v1=")
             expectedSignature == Digest(cleanSecret(secret), timestampPart.text, rawBody)
         IN  /\ v1Signatures # <<>>
             /\ \E i \in 1..Len(v1Signatures) : v1Signatures[i].digest = expectedSignature

\* what JSON.parse(body) gives: a SyntaxError, null, or an event with an
\* optional type and an optional data object
BadJson             == [json |-> "SyntaxError", type |-> "", data |-> FALSE]
NullJson            == [json |-> "null", type |-> "", data |-> FALSE]
Event(type, data)   == [json |-> "object", type |-> type, data |-> data]

\* the response is sent
Respond(status) ==
    /\ hookResponse' = status
    /\ hookPc' = "responded"

\* a prisma operation is issued and awaited
Issue(op) ==
    /\ dbOps' = Append(dbOps, op)
    /\ hookPc' = "db"
    /\ UNCHANGED hookResponse

\* POST up to its response or to the await of the prisma operation,
\* route.ts 23-78. An event without data makes upsertUser (81) and
\* event.data.id (64) throw before prisma is called; a null event makes
\* event.type throw; the outer catch answers 500.
Post ==
    /\ hookPc = "received"
    /\ LET event == request.body.parsed IN
       IF ~request.signature.present THEN Respond(400) /\ UNCHANGED dbOps
       ELSE IF ~webhookSecret(request.env).set THEN Respond(500) /\ UNCHANGED dbOps
       ELSE IF ~verifyClerkWebhook(request.body.text, request.signature.parts,
                                   webhookSecret(request.env))
            THEN Respond(401) /\ UNCHANGED dbOps
       ELSE IF event.json = "SyntaxError" THEN Respond(400) /\ UNCHANGED dbOps
       ELSE IF event.json = "null" THEN Respond(500) /\ UNCHANGED dbOps
       ELSE IF event.type \in {"user.created", "user.updated"}
            THEN IF event.data THEN Issue([op |-> "upsert", clerkId |-> "user_1"])
                 ELSE Respond(500) /\ UNCHANGED dbOps
       ELSE IF event.type = "user.deleted"
            THEN IF event.data THEN Issue([op |-> "delete", clerkId |-> "user_1"])
                 ELSE Respond(500) /\ UNCHANGED dbOps
       ELSE Respond(200) /\ UNCHANGED dbOps
    /\ UNCHANGED <<store, time, responses, request>>
    /\ UNCHANGED parseVars

\* the prisma operation resolves, route.ts 72
DbResolve ==
    /\ hookPc = "db"
    /\ Respond(200)
    /\ UNCHANGED <<store, time, responses, request, dbOps>>
    /\ UNCHANGED parseVars

\* the prisma operation rejects, route.ts 74-77
DbReject ==
    /\ hookPc = "db"
    /\ Respond(500)
    /\ UNCHANGED <<store, time, responses, request, dbOps>>
    /\ UNCHANGED parseVars

NextHook == Post \/ DbResolve \/ DbReject

\* the bodies of the requests of InitHook
Bodies ==
    { [text |-> "created", parsed |-> Event("user.created", TRUE)],
      [text |-> "updated", parsed |-> Event("user.updated", TRUE)],
      [text |-> "deleted", parsed |-> Event("user.deleted", TRUE)],
      [text |-> "created, no data", parsed |-> Event("user.created", FALSE)],
      [text |-> "deleted, no data", parsed |-> Event("user.deleted", FALSE)],
      [text |-> "session", parsed |-> Event("session.created", TRUE)],
      [text |-> "no type", parsed |-> Event("", TRUE)],
      [text |-> "invalid json", parsed |-> BadJson],
      [text |-> "null", parsed |-> NullJson] }

\* the svix-signature headers of a request with body text: none, an empty
\* one, and lists of parts whose v1 values are digests of that body or of
\* another one, under the keys k1, k2 or junk
Timestamp == "1640995200"
SignatureHeaders(text) ==
    { [present |-> FALSE, parts |-> <<>>] }
    \cup { [present |-> TRUE, parts |-> parts] :
             parts \in { <<TPart(Timestamp)>>, <<V1Part(Digest("k1", Timestamp, text))>>,
                         <<TPart(Timestamp), TPart(Timestamp)>>,
                         <<V1Part(Digest("k1", "", text)), V1Part(Digest("k1", Timestamp, text))>>,
                         <<TPart(Timestamp), V1Part(Digest("junk", Timestamp, text))>>,
                         <<TPart(Timestamp), V1Part(Digest("k1", Timestamp, "other body"))>>,
                         <<TPart(Timestamp), V1Part(Digest("k1", "1", text))>>,
                         <<TPart(Timestamp), V1Part(Digest("k1", Timestamp, text))>>,
                         <<TPart(Timestamp), V1Part(Digest("k2", Timestamp, text))>>,
                         <<V1Part(Digest("k1", Timestamp, text)), TPart(Timestamp)>>,
                         <<TPart(Timestamp), V1Part(Digest("junk", Timestamp, text)),
                           V1Part(Digest("k1", Timestamp, text))>> } }

\* the environments: each variable unset or set
Environments ==
    { [dev |-> d, prod |-> p] : d \in {Unset, Whsec("k1"), Secret("k1")},
                                p \in {Unset, Whsec("k2")} }

----------------------------------------------------------------------------
(* Specifications *)

\* a parse of an invalid buffer or of an archive of at most MaxEntries entries
Init ==
    \/ \E buf \in InvalidBuffers : Called(buf)
    \/ \E N \in SUBSET EntryNames :
          /\ Cardinality(N) <= MaxEntries
          /\ \E e \in EntriesOver(N, FilePayloads) : Called(Archive(e))
Spec == Init /\ [][Next]_vars

\* a parse of an invalid buffer or of a one-entry archive, for every entry name
InitNames ==
    \/ \E buf \in InvalidBuffers : Called(buf)
    \/ \E name \in AllNames : \E p \in PayloadsOf(name, NamePayloads) :
          Called(OneEntry(name, p))
SpecNames == InitNames /\ [][Next]_vars

\* the call with the archive of one root document, body bare or wrapped
CalledWithDoc(body) ==
    \E doc \in {body, WrapperOf(body)} :
       Called(OneEntry(<<"conv", ".", "json">>, FileEntry(JsonBytes, doc)))

\* a parse of an invalid buffer, of an attachment, or of one root document,
\* for every document of at most MaxMsgs message nodes
InitDocs ==
    \/ \E buf \in InvalidBuffers : Called(buf)
    \/ Called(OneEntry(<<"images", "/", "pic", ".", "PNG">>, FileEntry(PngBytes, SyntaxError)))
    \/ \E k \in 0..MaxMsgs :
          \/ \E nodes \in [1..k -> MessageNodes] : CalledWithDoc(FlatBody(nodes))
          \/ \E values \in [1..k -> MappingValues] : CalledWithDoc(MappingBody(values))
          \/ \E nodes \in [1..k -> WrappedNodes \cup {Null}] : CalledWithDoc(BothBody(nodes))
    \/ \E doc \in ScalarDocs :
          Called(OneEntry(<<"conv", ".", "json">>, FileEntry(JsonBytes, doc)))
SpecDocs == InitDocs /\ [][Next]_vars

\* a parse of an invalid buffer, of an attachment, or of one root document
\* for every combination of header fields, bare or under a wrapper that has
\* header fields of its own
InitMeta ==
    \/ \E buf \in InvalidBuffers : Called(buf)
    \/ Called(OneEntry(<<"images", "/", "pic", ".", "PNG">>, FileEntry(PngBytes, SyntaxError)))
    \/ \E id \in IdValues, cid \in ConversationIdValues, title \in TitleValues,
          name \in ConvNameValues, ct \in CreateTimeValues, ca \in CreatedAtValues,
          ut \in UpdateTimeValues, ua \in UpdatedAtValues, msgs \in MessagesValues,
          nested \in NestedValues, f \in MetaNames :
          LET body == ObjOf(<<KV("id", id), KV("conversation_id", cid), KV("title", title),
                              KV("name", name), KV("create_time", ct), KV("created_at", ca),
                              KV("update_time", ut), KV("updated_at", ua),
                              KV("messages", msgs), KV("conversation", nested)>>)
          IN  \E doc \in {body, OuterOf(body)} :
                 Called(OneEntry(f, FileEntry(JsonBytes, doc)))
SpecMeta == InitMeta /\ [][Next]_vars

\* no parse is running
ParseIdle ==
    /\ zipBuffer = [kind |-> "none"]
    /\ pc = "idle"
    /\ files = {}
    /\ task = <<>>
    /\ conversations = <<>>
    /\ attachments = <<>>
    /\ warnings = {}
    /\ outcome = Pending

\* the server starts: the store is empty, rateLimit.ts 19
InitRate == ParseIdle /\ ServersIdle
SpecRate == InitRate /\ [][NextRate]_vars

\* a request arrives at the webhook handler
InitHook ==
    /\ ParseIdle
    /\ RateIdle
    /\ \E body \in Bodies, env \in Environments :
          \E signature \in SignatureHeaders(body.text) :
             request = [kind |-> "POST", body |-> body, signature |-> signature, env |-> env]
    /\ hookPc = "received"
    /\ dbOps = <<>>
    /\ hookResponse = 0
SpecHook == InitHook /\ [][NextHook]_vars

----------------------------------------------------------------------------
(* Properties *)

Entries  == zipBuffer.entries
Returned == outcome.status = "fulfilled"
Failed   == outcome.status = "rejected"

\* the records of the result that come from entry f
ConversationsFrom(f) ==
    SelectSeq(conversations, LAMBDA c : c.metadata.originalFilename = f)
AttachmentsFrom(f) ==
    SelectSeq(attachments, LAMBDA a : a.relativePath = f)

\* processing entry f fails: its payload cannot be read, or it is a root
\* document whose text is not JSON
FailsToProcess(f) ==
    /\ ~Entries[f].dir
    /\ \/ ~Entries[f].readable
       \/ isConversationFile(f) /\ Entries[f].json = SyntaxError

\* what the parse of an archive that holds entry f alone returns
SoloConversations(f) ==
    IF /\ ~Entries[f].dir
       /\ isConversationFile(f)
       /\ \E now \in ClockValues : normalizeConversation(Entries[f].json, f, now) # Null
    THEN { <<normalizeConversation(Entries[f].json, f, now)>> : now \in ClockValues }
    ELSE { <<>> }
SoloAttachments(f) ==
    IF ~Entries[f].dir /\ ~isConversationFile(f) /\ isAttachmentFile(f)
    THEN <<attachmentOf(f, Entries[f].bytes)>>
    ELSE <<>>

\* C1: in an archive that opens, a failure of one entry never makes the
\* parse fail; a failing entry contributes no record, and every other entry
\* contributes exactly the records it contributes when parsed alone.
C1_PartialFailureIsolation ==
    IsArchive(zipBuffer) =>
       /\ ~Failed
       /\ Returned =>
            /\ \A i \in 1..Len(conversations) :
                  conversations[i].metadata.originalFilename \in DOMAIN Entries
            /\ \A i \in 1..Len(attachments) :
                  attachments[i].relativePath \in DOMAIN Entries
            /\ \A f \in DOMAIN Entries :
                  IF FailsToProcess(f)
                  THEN ConversationsFrom(f) = <<>> /\ AttachmentsFrom(f) = <<>>
                  ELSE /\ ConversationsFrom(f) \in SoloConversations(f)
                       /\ AttachmentsFrom(f) = SoloAttachments(f)

\* one root document that is not JSON next to a valid one: one conversation
C1_Witness ==
    /\ IsArchive(zipBuffer)
    /\ Returned
    /\ Len(conversations) = 1
    /\ \E f, g \in DOMAIN Entries :
          /\ f # g
          /\ isConversationFile(f) /\ Entries[f].readable /\ Entries[f].json = SyntaxError
          /\ isConversationFile(g) /\ ConversationsFrom(g) # <<>>

\* C2: a non-empty buffer that cannot be opened as an archive is rejected
\* with 'Invalid ZIP file' and with no other error.
C2_UnopenableIsInvalidZip ==
    (/\ zipBuffer.kind = "buffer"
     /\ zipBuffer.length > 0
     /\ ~IsArchive(zipBuffer)
     /\ pc = "done")
    => outcome = Rejected(<<"Invalid ZIP file">>)

\* C3: a zero-length buffer is rejected with 'Empty ZIP file' and the
\* container is never opened.
C3_EmptyBuffer ==
    zipBuffer = EmptyBuffer =>
       /\ pc \in {"validate", "done"}
       /\ files = {}
       /\ pc = "done" => outcome = Rejected(<<"Empty ZIP file">>)

C3_Witness == zipBuffer = EmptyBuffer /\ pc = "done" /\ Failed

\* C4: an absent buffer (null or undefined) is rejected with 'Invalid input',
\* which is not the error of a zero-length buffer.
C4_AbsentBuffer ==
    zipBuffer.kind \in {"null", "undefined"} =>
       /\ pc \in {"validate", "done"}
       /\ pc = "done" => /\ outcome = Rejected(<<"Invalid input">>)
                         /\ outcome # Rejected(validationError(EmptyBuffer))

C4_Witness == zipBuffer = UndefinedBuffer /\ pc = "done" /\ Failed

----------------------------------------------------------------------------
(* Properties of the documents *)

DocName == <<"conv", ".", "json">>

\* the archive holds a root document that is read and parsed
HasDoc ==
    /\ IsArchive(zipBuffer)
    /\ DocName \in DOMAIN Entries
    /\ Entries[DocName].readable
    /\ Entries[DocName].json # SyntaxError

\* the parsed root document, without its 'conversation' wrapper
DocBody ==
    LET doc == Entries[DocName].json IN
    IF Get(doc, "conversation").t = "obj" THEN Get(doc, "conversation") ELSE doc

\* the raw message nodes of the document: the elements of the flat list, or
\* the values of the mapping, each without its 'message' wrapper
DocNodes ==
    IF Get(DocBody, "messages").t = "arr" THEN Get(DocBody, "messages").a
    ELSE IF Get(DocBody, "mapping").t = "obj"
         THEN LET values == Get(DocBody, "mapping").p IN
              [i \in 1..Len(values) |->
                 IF Get(values[i].v, "message").t = "obj"
                 THEN Get(values[i].v, "message") ELSE values[i].v]
    ELSE <<>>

\* the messages of all the conversations of the result
AllMessages ==
    UNION { { conversations[i].messages[j] : j \in 1..Len(conversations[i].messages) } :
               i \in 1..Len(conversations) }

\* C5: every conversation of a result has at least one message; a root
\* document (flat list or mapping) none of whose nodes normalizes to a
\* message produces no conversation.
C5_NoEmptyConversation ==
    /\ \A i \in 1..Len(conversations) : Len(conversations[i].messages) >= 1
    /\ (/\ Returned
        /\ HasDoc
        /\ \A j \in 1..Len(DocNodes) : normalizeMessage(DocNodes[j]) = Null)
       => conversations = <<>>

\* a mapping with values, none of which yields a message, and an empty result
C5_Witness ==
    /\ Returned
    /\ HasDoc
    /\ Get(DocBody, "mapping").t = "obj"
    /\ Len(DocNodes) >= 1
    /\ \A j \in 1..Len(DocNodes) : normalizeMessage(DocNodes[j]) = Null
    /\ conversations = <<>>

\* the content of a node resolves to an empty or white-space-only string
BlankContent(node) ==
    \A i \in 1..Len(messageContent(node)) : IsSpace(messageContent(node)[i])

\* C6: a node whose content resolves to an empty or white-space-only string
\* is in no conversation of the result; the content of every message of the
\* result is non-empty and has no white space at either end; a document
\* whose only node is such a node produces no conversation.
C6_NoBlankMessage ==
    /\ \A m \in AllMessages :
          /\ m.content # <<>>
          /\ ~IsSpace(m.content[1])
          /\ ~IsSpace(m.content[Len(m.content)])
    /\ (Returned /\ HasDoc) =>
          /\ Cardinality(AllMessages)
                <= Cardinality({ j \in 1..Len(DocNodes) : ~BlankContent(DocNodes[j]) })
          /\ (Len(DocNodes) = 1 /\ BlankContent(DocNodes[1])) => conversations = <<>>

\* a node with white-space content next to a usable one: one message
C6_Witness ==
    /\ Returned
    /\ HasDoc
    /\ Len(DocNodes) = 2
    /\ \E j \in 1..2 :
          /\ DocNodes[j] # Null
          /\ Get(DocNodes[j], "content") = Blank
    /\ Len(conversations) = 1
    /\ Len(conversations[1].messages) = 1

\* the role the claim gives to a node
ExpectedRole(node) ==
    LET role   == Get(node, "role")
        author == Get(node, "author")
    IN  IF role.t = "str" /\ role.s \in {<<"system">>, <<"user">>, <<"assistant">>}
        THEN role.s
        ELSE IF /\ author.t = "obj"
                /\ Get(author, "role").t = "str"
                /\ Get(author, "role").s \in {<<"system">>, <<"user">>, <<"assistant">>}
             THEN Get(author, "role").s
        ELSE <<"user">>

\* the nodes of the document that normalize to a message, in their order
KeptNodes == SelectSeq(DocNodes, LAMBDA n : normalizeMessage(n) # Null)

\* C7: the role of every message of a result is system, user or assistant:
\* the direct role of its node if that is one of the three, else the role of
\* the author object if that is one of the three, else user.
C7_RoleResolution ==
    /\ \A m \in AllMessages : m.role \in {<<"system">>, <<"user">>, <<"assistant">>}
    /\ (Returned /\ HasDoc /\ conversations # <<>>) =>
          /\ Len(conversations[1].messages) = Len(KeptNodes)
          /\ \A j \in 1..Len(KeptNodes) :
                conversations[1].messages[j].role = ExpectedRole(KeptNodes[j])

\* a message whose role comes from the author, its direct role being none of
\* the three
C7_Witness ==
    /\ Returned
    /\ HasDoc
    /\ conversations # <<>>
    /\ \E j \in 1..Len(KeptNodes) :
          /\ Get(KeptNodes[j], "role") = Str(<<"tool">>)
          /\ Get(Get(KeptNodes[j], "author"), "role") = Str(<<"system">>)
          /\ conversations[1].messages[j].role = <<"system">>

----------------------------------------------------------------------------
(* Properties of the classification of entries *)

\* C8: an entry whose name contains a path separator is never handed to the
\* conversation normalizer and produces no conversation, whatever its
\* content, also when its name ends in .json; every conversation comes from
\* a root-level entry.
C8_NestedDocumentIsNoConversation ==
    /\ IsArchive(zipBuffer) =>
          \A f \in DOMAIN Entries :
             includes(f, <<"/">>) =>
                /\ f \in DOMAIN task => task[f] # "text"
                /\ ConversationsFrom(f) = <<>>
    /\ \A i \in 1..Len(conversations) :
          ~includes(conversations[i].metadata.originalFilename, <<"/">>)

\* a nested .json entry that holds a valid document, and an empty result
C8_Witness ==
    /\ IsArchive(zipBuffer)
    /\ Returned
    /\ conversations = <<>>
    /\ \E f \in DOMAIN Entries :
          /\ includes(f, <<"/">>)
          /\ endsWith(f, <<".", "json">>)
          /\ Entries[f] = FileEntry(JsonBytes, FlatDoc)

\* the base name of an entry: its last path segment
BaseName(f) == lastSegment(f, "/")

\* the entry carries the system marker, or its base name the hidden-file marker
MarkedSystemOrHidden(f) ==
    \/ includes(toLowerCase(f), <<"__macosx">>)
    \/ startsWith(BaseName(f), <<".">>)

\* C9: an entry whose name contains __MACOSX (any case) or whose base name
\* starts with '.' produces neither a conversation nor an attachment.
C9_SystemAndHiddenDiscarded ==
    (IsArchive(zipBuffer) /\ Returned) =>
       \A f \in DOMAIN Entries :
          MarkedSystemOrHidden(f) =>
             ConversationsFrom(f) = <<>> /\ AttachmentsFrom(f) = <<>>

\* the extension of the base name of f is in the supported set
SupportedExtension(f) ==
    LET base == toLowerCase(BaseName(f)) IN
    /\ includes(base, <<".">>)
    /\ Len(lastSegment(base, ".")) = 1
    /\ <<".", lastSegment(base, ".")[1]>> \in attachmentExtensions

\* C10: a non-directory entry that is no root-level document and is not
\* marked system or hidden produces an attachment if and only if its
\* extension is supported, and produces no other record.
C10_AttachmentIffSupportedExtension ==
    (IsArchive(zipBuffer) /\ Returned) =>
       \A f \in DOMAIN Entries :
          (/\ ~Entries[f].dir
           /\ Entries[f].readable
           /\ ~isConversationFile(f)
           /\ ~MarkedSystemOrHidden(f))
          => /\ ConversationsFrom(f) = <<>>
             /\ Len(AttachmentsFrom(f)) = (IF SupportedExtension(f) THEN 1 ELSE 0)

----------------------------------------------------------------------------
(* Properties of the attachment records *)

\* the extension of f (what follows the last '.' of its base name) has no
\* entry in the MIME table
UnrecognizedExtension(f) ==
    LET ext == lastSegment(toLowerCase(BaseName(f)), ".") IN
    ~(Len(ext) = 1 /\ ext[1] \in DOMAIN mimeTypes)

\* C11: an entry the parser treats as an attachment and whose extension is
\* not in the MIME table is still extracted, with contentType
\* application/octet-stream.
C11_UnknownExtensionFallback ==
    (IsArchive(zipBuffer) /\ Returned) =>
       \A f \in DOMAIN Entries :
          (/\ ~Entries[f].dir
           /\ Entries[f].readable
           /\ ~isConversationFile(f)
           /\ isAttachmentFile(f)
           /\ UnrecognizedExtension(f))
          => /\ Len(AttachmentsFrom(f)) = 1
             /\ AttachmentsFrom(f)[1].contentType = "application/octet-stream"
             /\ AttachmentsFrom(f)[1].content = Entries[f].bytes

\* data.tar.gz is extracted as application/octet-stream
C11_Witness ==
    /\ IsArchive(zipBuffer)
    /\ Returned
    /\ \E i \in 1..Len(attachments) :
          /\ attachments[i].relativePath = <<"data", ".", "tar", ".", "gz">>
          /\ attachments[i].contentType = "application/octet-stream"

----------------------------------------------------------------------------
(* Properties of the content of the messages *)

\* the content the claim gives to a node, before trimming
ExpectedContent(node) ==
    LET c == Get(node, "content") IN
    IF c.t = "str" THEN c.s
    ELSE IF c.t = "obj" /\ Get(c, "parts").t = "arr"
         THEN join(StringsOf(SelectSeq(Get(c, "parts").a, LAMBDA x : x.t = "str")), <<" ">>)
    ELSE IF c.t = "obj" /\ Get(c, "text").t = "str" THEN Get(c, "text").s
    ELSE <<>>

\* the nodes of the document the claim keeps, in their order
NodesWithContent ==
    SelectSeq(DocNodes, LAMBDA n : n.t = "obj" /\ trim(ExpectedContent(n)) # <<>>)

\* C12: the content of a message is its string content; else the string
\* parts of its parts list joined with one space, the text field being
\* ignored even when the parts yield nothing; else its string text field;
\* else nothing, and the message is dropped.
C12_ContentPrecedence ==
    (Returned /\ HasDoc) =>
       IF NodesWithContent = <<>> THEN conversations = <<>>
       ELSE /\ Len(conversations) = 1
            /\ Len(conversations[1].messages) = Len(NodesWithContent)
            /\ \A j \in 1..Len(NodesWithContent) :
                  conversations[1].messages[j].content
                     = trim(ExpectedContent(NodesWithContent[j]))

\* a node whose parts hold no string and which has a text field is dropped
C12_Witness ==
    /\ Returned
    /\ HasDoc
    /\ Len(DocNodes) = 1
    /\ DocNodes[1] # Null
    /\ Get(DocNodes[1], "content")
          = Obj(<<KV("parts", Arr(<<Num(1)>>)), KV("text", Str(<<"text">>))>>)
    /\ conversations = <<>>


----------------------------------------------------------------------------
(* Properties of the header fields of a conversation (SpecMeta) *)

\* the archive holds one entry, a root document that is read and parsed
HasMetaDoc ==
    /\ IsArchive(zipBuffer)
    /\ \E f \in MetaNames : DOMAIN Entries = {f}

\* the name of that entry, the parsed document, and the object the claims
\* call the conversation: the value of 'conversation' when it is an object,
\* else the document
MetaName == CHOOSE f \in DOMAIN Entries : TRUE
MetaDoc  == Entries[MetaName].json
MetaWrapped == Get(MetaDoc, "conversation").t = "obj"
MetaInner == IF MetaWrapped THEN Get(MetaDoc, "conversation") ELSE MetaDoc

\* a field is present when it holds a value JavaScript takes for true
Present(v) == Truthy(v)

\* C13: the id of every conversation is a string: the document's explicit
\* identifier when it has one, else its alternative explicit identifier,
\* else the identifier derived from the name of the file.
C13_IdIsStringInOrder ==
    (Returned /\ HasMetaDoc /\ conversations # <<>>) =>
       LET id == conversations[1].id IN
       /\ id.t = "str"
       /\ id = IF Present(Get(MetaInner, "id")) THEN Get(MetaInner, "id")
               ELSE IF Present(Get(MetaInner, "conversation_id"))
                    THEN Get(MetaInner, "conversation_id")
               ELSE Str(generateIdFromFilename(MetaName))

\* the order alone, whatever the type of the identifier
IdInOrder ==
    (Returned /\ HasMetaDoc /\ conversations # <<>>) =>
       conversations[1].id =
          IF Present(Get(MetaInner, "id")) THEN Get(MetaInner, "id")
          ELSE IF Present(Get(MetaInner, "conversation_id"))
               THEN Get(MetaInner, "conversation_id")
          ELSE Str(generateIdFromFilename(MetaName))


----------------------------------------------------------------------------
(* Stability of the identifiers (Spec) *)

\* the identifier the document of entry f has in every parse of the archive:
\* a value found in the entry alone, which neither the clock nor the order
\* in which the entries are finished can change
StableId(f) ==
    LET doc  == Entries[f].json
        body == IF Get(doc, "conversation").t = "obj" THEN Get(doc, "conversation") ELSE doc
    IN  IF Present(Get(body, "id")) THEN Get(body, "id")
        ELSE IF Present(Get(body, "conversation_id")) THEN Get(body, "conversation_id")
        ELSE Str(generateIdFromFilename(f))

\* C14: the same archive parsed again, with its entries finished in any
\* order and at any time, gives every document the same id: at every point
\* of every parse the id of a conversation is the value StableId finds in
\* the entry it comes from.
C14_StableIds ==
    IsArchive(zipBuffer) =>
       \A i \in 1..Len(conversations) :
          conversations[i].id = StableId(conversations[i].metadata.originalFilename)

\* two documents without an explicit identifier, finished in the order
\* opposite to that of their names
C14_Witness ==
    /\ Returned
    /\ Len(conversations) = 2
    /\ conversations[1].metadata.originalFilename = <<"conv", ".", "json">>
    /\ conversations[2].metadata.originalFilename = <<"chat", ".", "JSON">>
    /\ conversations[1].id = Str(<<"conv">>)
    /\ conversations[2].id = Str(<<"chat", "_", "JSON">>)


----------------------------------------------------------------------------
(* Properties of the two shapes of a document (SpecDocs) *)

\* the flat list of the document, when it has one
HasFlatList == Get(DocBody, "messages").t = "arr"
FlatNodes   == Get(DocBody, "messages").a
HasMapping  == Get(DocBody, "mapping").t = "obj"

\* the nodes of the flat list that normalize to a message, in their order
KeptOfList == SelectSeq(FlatNodes, LAMBDA n : normalizeMessage(n) # Null)

\* C15: the messages of a document that has a flat list are the nodes of
\* the list that normalize to a message, each normalized, in the order of
\* the list, and nothing else: a mapping next to the list adds nothing.
C15_FlatListInOrder ==
    (Returned /\ HasDoc /\ HasFlatList) =>
       IF KeptOfList = <<>> THEN conversations = <<>>
       ELSE /\ Len(conversations) = 1
            /\ conversations[1].messages =
                  [j \in 1..Len(KeptOfList) |-> normalizeMessage(KeptOfList[j])]

\* a list of two nodes, the first of which normalizes to nothing, next to a
\* mapping that holds a message
C15_Witness ==
    /\ Returned /\ HasDoc /\ HasFlatList /\ HasMapping
    /\ Len(FlatNodes) = 2
    /\ normalizeMessage(FlatNodes[1]) = Null
    /\ Len(conversations) = 1
    /\ Len(conversations[1].messages) = 1
    /\ conversations[1].messages[1].content = <<"Hello">>


\* the values of the mapping, in the order of Object.values
MappingEntries ==
    LET pairs == Get(DocBody, "mapping").p IN [i \in 1..Len(pairs) |-> pairs[i].v]

\* the message node of a mapping value: what it holds under 'message', or
\* the value itself when it holds nothing there
Unwrapped(v) == IF Present(Get(v, "message")) THEN Get(v, "message") ELSE v

\* a mapping value has usable content when its message node is an object
\* whose content is more than white space
Usable(v) ==
    /\ v.t = "obj"
    /\ Unwrapped(v).t = "obj"
    /\ trim(ExpectedContent(Unwrapped(v))) # <<>>
UsableEntries == SelectSeq(MappingEntries, Usable)

\* C16: the messages of a document in the mapping shape are the message
\* nodes of the mapping values, each taken out of its 'message' key and
\* normalized; there are as many as mapping values with usable content,
\* and a value without it (a wrapper whose message is null) adds nothing.
C16_MappingUnwrapped ==
    (Returned /\ HasDoc /\ ~HasFlatList /\ HasMapping) =>
       IF UsableEntries = <<>> THEN conversations = <<>>
       ELSE /\ Len(conversations) = 1
            /\ Len(conversations[1].messages) = Len(UsableEntries)
            /\ \A j \in 1..Len(UsableEntries) :
                  conversations[1].messages[j] = normalizeMessage(Unwrapped(UsableEntries[j]))

\* a mapping of two wrappers, the message of the first being null
C16_Witness ==
    /\ Returned /\ HasDoc /\ ~HasFlatList /\ HasMapping
    /\ Len(MappingEntries) = 2
    /\ MappingEntries[1] = Obj(<<KV("id", Str(<<"node">>)), KV("message", Null)>>)
    /\ Get(MappingEntries[2], "message").t = "obj"
    /\ Len(conversations) = 1
    /\ Len(conversations[1].messages) = 1
    /\ conversations[1].messages[1].content = <<"Hello">>


----------------------------------------------------------------------------
(* Properties of the wrapper and of the header fields (SpecMeta) *)

\* the first of two fields that is present, else a default
FirstPresent(a, b, default) ==
    IF Present(a) THEN a ELSE IF Present(b) THEN b ELSE default

\* the value of the document's 'conversation' key
Wrappee == Get(MetaDoc, "conversation")

\* C17: of a document wrapped under 'conversation' one level is unwrapped:
\* id, title, timestamps and messages are those of the object under the
\* key, nothing is taken from the object that holds the key, and a
\* 'conversation' key of the inner object is not followed.
C17_OneLevelUnwrapped ==
    (Returned /\ HasMetaDoc /\ MetaWrapped) =>
       IF Get(Wrappee, "messages").t # "arr" THEN conversations = <<>>
       ELSE /\ Len(conversations) = 1
            /\ LET c == conversations[1] IN
               /\ c.id = FirstPresent(Get(Wrappee, "id"), Get(Wrappee, "conversation_id"),
                                      Str(generateIdFromFilename(MetaName)))
               /\ c.title = FirstPresent(Get(Wrappee, "title"), Get(Wrappee, "name"),
                                         Str(<<"Untitled Conversation">>))
               /\ \E now \in ClockValues :
                     c.created_at = FirstPresent(Get(Wrappee, "create_time"),
                                                 Get(Wrappee, "created_at"), Str(now))
               /\ c.updated_at = FirstPresent(Get(Wrappee, "update_time"),
                                              Get(Wrappee, "updated_at"),
                                              Get(Wrappee, "updated_at"))
               /\ c.messages = normalizeList(Get(Wrappee, "messages").a)

\* a wrapper with fields of its own around an object that holds a further
\* 'conversation': the result has the fields and the message of the object
\* in the middle
C17_Witness ==
    /\ Returned /\ HasMetaDoc /\ MetaWrapped
    /\ Get(MetaDoc, "id") = Str(<<"outer-id">>)
    /\ Get(Wrappee, "id") = Str(<<"conv-1">>)
    /\ Get(Wrappee, "conversation") = DeepDoc
    /\ Len(conversations) = 1
    /\ conversations[1].id = Str(<<"conv-1">>)
    /\ conversations[1].messages[1].content = <<"Hello">>


\* C18: the title of every conversation is the document's title when it
\* has one, else its name when it has one, else 'Untitled Conversation'.
C18_TitleResolution ==
    (Returned /\ HasMetaDoc /\ conversations # <<>>) =>
       conversations[1].title =
          IF Present(Get(MetaInner, "title")) THEN Get(MetaInner, "title")
          ELSE IF Present(Get(MetaInner, "name")) THEN Get(MetaInner, "name")
          ELSE Str(<<"Untitled Conversation">>)

\* a document that has no title and has a name
C18_Witness ==
    /\ Returned /\ HasMetaDoc /\ ~MetaWrapped
    /\ Len(conversations) = 1
    /\ Get(MetaDoc, "title") = Undefined
    /\ Get(MetaDoc, "name") = Str(<<"Name">>)
    /\ conversations[1].title = Str(<<"Name">>)

\* the values of the timestamp fields of the document
DocCreateTime == Get(MetaInner, "create_time")
DocCreatedAt  == Get(MetaInner, "created_at")
DocUpdateTime == Get(MetaInner, "update_time")
DocUpdatedAt  == Get(MetaInner, "updated_at")

----------------------------------------------------------------------------
(* Aggregation of the per-entry results (Spec) *)

\* entry f is processed to a conversation, or to an attachment
YieldsConversation(f) ==
    /\ ~Entries[f].dir /\ isConversationFile(f)
    /\ Entries[f].readable /\ Entries[f].json # SyntaxError
    /\ \E now \in ClockValues : normalizeConversation(Entries[f].json, f, now) # Null
YieldsAttachment(f) ==
    /\ ~Entries[f].dir /\ ~isConversationFile(f) /\ isAttachmentFile(f)
    /\ Entries[f].readable

\* C20: whatever the order in which the tasks of the entries start and
\* resume, the result has one record for each entry that is processed to a
\* record and no other record: none is lost, none is there twice, and each
\* is the record of its entry, so that two interleavings differ in the
\* order of the records only.
C20_OneRecordPerEntry ==
    (IsArchive(zipBuffer) /\ Returned) =>
       /\ Len(conversations) = Cardinality({f \in DOMAIN Entries : YieldsConversation(f)})
       /\ Len(attachments) = Cardinality({f \in DOMAIN Entries : YieldsAttachment(f)})
       /\ \A f \in DOMAIN Entries :
             /\ YieldsConversation(f) =>
                   \E i \in 1..Len(conversations) :
                      /\ conversations[i].metadata.originalFilename = f
                      /\ \E now \in ClockValues :
                            conversations[i] = normalizeConversation(Entries[f].json, f, now)
             /\ YieldsAttachment(f) =>
                   \E i \in 1..Len(attachments) :
                      attachments[i] = attachmentOf(f, Entries[f].bytes)

\* two documents, that of chat.JSON finished before that of conv.json
C20_Witness ==
    /\ Returned
    /\ Len(conversations) = 2
    /\ conversations[1].metadata.originalFilename = <<"chat", ".", "JSON">>
    /\ conversations[2].metadata.originalFilename = <<"conv", ".", "json">>
    /\ conversations[1].id # conversations[2].id


----------------------------------------------------------------------------
(* The result as a whole (Spec) *)

\* C21: a parse that fails has produced nothing: it fails on the buffer or
\* on opening the archive, before the arrays exist. A parse that returns
\* does so when the task of every entry has finished, and from then on no
\* task adds to conversations or attachments and the counters stay as they
\* were returned.
C21_AllOrNothing ==
    /\ [](Failed => /\ ~IsArchive(zipBuffer)
                    /\ conversations = <<>> /\ attachments = <<>>
                    /\ files = {})
    /\ [](Returned => \A f \in files : task[f] = "done")
    /\ [][Returned => /\ conversations' = conversations
                      /\ attachments' = attachments
                      /\ outcome' = outcome]_vars

\* a result returned after one entry gave a conversation and the other was
\* given up with a warning
C21_Witness ==
    /\ Returned
    /\ Cardinality(files) = 2
    /\ \A f \in files : task[f] = "done"
    /\ Len(conversations) = 1
    /\ warnings # {}


\* C22: in every result the counters agree with the arrays and with the
\* archive: processedConversations is the length of conversations,
\* processedAttachments the length of attachments, and totalFiles the
\* number of entries of the archive, directories included.
C22_CountersAgree ==
    Returned =>
       /\ outcome.metadata.processedConversations = Len(conversations)
       /\ outcome.metadata.processedAttachments = Len(attachments)
       /\ outcome.metadata.totalFiles = Cardinality(DOMAIN Entries)

\* an archive of a directory and a picture in it
C22_Witness ==
    /\ Returned
    /\ DOMAIN Entries = {<<"images", "/">>, <<"images", "/", "pic", ".", "PNG">>}
    /\ outcome.metadata = [totalFiles |-> 2, processedConversations |-> 0,
                           processedAttachments |-> 1]
    /\ Len(attachments) = 1


----------------------------------------------------------------------------
(* The attachment records (SpecNames) *)

\* C23: every attachment of a result is well-formed with respect to its
\* entry: relativePath is the full name of an entry of the archive, name is
\* what follows the last '/' of that name and has no '/' in it, content is
\* the bytes of the entry and size is their number.
C23_AttachmentWellFormed ==
    IsArchive(zipBuffer) =>
       \A i \in 1..Len(attachments) :
          LET a == attachments[i] IN
          /\ a.relativePath \in DOMAIN Entries
          /\ a.name = BaseName(a.relativePath)
          /\ a.name # <<>>
          /\ \A j \in 1..Len(a.name) : a.name[j] # "/"
          /\ a.content = Entries[a.relativePath].bytes
          /\ a.size = Len(a.content)

\* a picture in a directory
C23_Witness ==
    /\ Returned
    /\ Len(attachments) = 1
    /\ attachments[1].relativePath = <<"a", "/", "a", ".", "PNG">>
    /\ attachments[1].name = <<"a", ".", "PNG">>
    /\ attachments[1].size = 4


----------------------------------------------------------------------------
(* The warnings *)

\* the text of entry f cannot be read, or is not JSON
Undecodable(f) == ~Entries[f].readable \/ Entries[f].json = SyntaxError

\* the document of entry f is JSON and is not an object at all, so that
\* there is nothing in it to read a conversation from
Unsalvageable(f) ==
    /\ ~Undecodable(f)
    /\ Entries[f].json.t \notin {"obj", "arr"}

\* entry f is classified Discard: neither a root document nor an attachment
Discarded(f) == ~isConversationFile(f) /\ ~isAttachmentFile(f)

\* the document of entry f is an object from which the drop rules leave no
\* conversation
DroppedByRule(f) ==
    /\ isConversationFile(f)
    /\ ~Undecodable(f)
    /\ Entries[f].json.t \in {"obj", "arr"}
    /\ \A now \in ClockValues : normalizeConversation(Entries[f].json, f, now) = Null

\* C24: when the parse returns, a warning naming the entry has been given
\* for every root document skipped because its text cannot be read, is not
\* JSON, or is no object to salvage a conversation from; and none has been
\* given for a directory, for an entry classified Discard, or for a document
\* that the drop rules leave without messages.
C24_WarningPerSkippedEntry ==
    (IsArchive(zipBuffer) /\ Returned) =>
       \A f \in DOMAIN Entries :
          IF Entries[f].dir THEN f \notin warnings
          ELSE /\ (isConversationFile(f) /\ (Undecodable(f) \/ Unsalvageable(f)))
                  => f \in warnings
               /\ (Discarded(f) \/ DroppedByRule(f)) => f \notin warnings

\* the same without the documents that are no object: the warnings are
\* exactly the entries whose content cannot be read or is not JSON
WarningsForUndecodable ==
    (IsArchive(zipBuffer) /\ Returned) =>
       warnings = {f \in DOMAIN Entries :
                     /\ ~Entries[f].dir
                     /\ \/ isConversationFile(f) /\ Undecodable(f)
                        \/ ~isConversationFile(f) /\ isAttachmentFile(f)
                           /\ ~Entries[f].readable}


----------------------------------------------------------------------------
(* Records and entries (Spec) *)

\* C29: every record of a result comes from an entry of the archive, an
\* entry gives at most one record, conversation or attachment, and a
\* directory gives none; so the two counters together never exceed the
\* number of entries.
C29_AtMostOneRecordPerEntry ==
    (IsArchive(zipBuffer) /\ Returned) =>
       /\ \A i \in 1..Len(conversations) :
             conversations[i].metadata.originalFilename \in DOMAIN Entries
       /\ \A i \in 1..Len(attachments) : attachments[i].relativePath \in DOMAIN Entries
       /\ \A f \in DOMAIN Entries :
             /\ Len(ConversationsFrom(f)) + Len(AttachmentsFrom(f)) <= 1
             /\ Entries[f].dir => ConversationsFrom(f) = <<>> /\ AttachmentsFrom(f) = <<>>
       /\ outcome.metadata.processedConversations + outcome.metadata.processedAttachments
             <= outcome.metadata.totalFiles

\* a directory next to a root document that is the only record
C29_Witness ==
    /\ Returned
    /\ DOMAIN Entries = {<<"images", "/">>, <<"conv", ".", "json">>}
    /\ Entries[<<"images", "/">>].dir
    /\ Len(conversations) = 1
    /\ attachments = <<>>
    /\ outcome.metadata.processedConversations + outcome.metadata.processedAttachments = 1


----------------------------------------------------------------------------
(* Properties of the rate limiters (SpecRate) *)

Min(a, b) == IF a <= b THEN a ELSE b

\* the calls of limiter l for key k that fall in the window that ends at w,
\* and the calls of any limiter for k in that window
CallsIn(l, k, w) ==
    {i \in 1..Len(responses) :
        /\ responses[i].limiter = l /\ responses[i].key = k /\ responses[i].resetTime = w}
CallsOfKeyIn(k, w) ==
    {i \in 1..Len(responses) : responses[i].key = k /\ responses[i].resetTime = w}
Admitted(I) == {i \in I : responses[i].admitted}
Windows == {responses[i].resetTime : i \in 1..Len(responses)}

\* C25: of the n calls of one limiter for one key that fall in one window,
\* in whatever order they come and whatever is called for other keys,
\* min(n, maxRequests) are admitted and every other one is answered 429.
C25_ExactAdmissions ==
    \A l \in Limiters, k \in Keys, w \in Windows :
       /\ Cardinality(Admitted(CallsIn(l, k, w)))
             = Min(Cardinality(CallsIn(l, k, w)), maxRequests[l])
       /\ \A i \in CallsIn(l, k, w) : ~responses[i].admitted => responses[i].status = 429

\* the same for the windows of a key in which one limiter only is called
ExactAdmissionsAlone ==
    \A l \in Limiters, k \in Keys, w \in Windows :
       CallsOfKeyIn(k, w) = CallsIn(l, k, w) =>
          /\ Cardinality(Admitted(CallsIn(l, k, w)))
                = Min(Cardinality(CallsIn(l, k, w)), maxRequests[l])
          /\ \A i \in CallsIn(l, k, w) : ~responses[i].admitted => responses[i].status = 429


\* call j is the first call for its key after the window of call i, a call
\* for the same key, has expired
FirstAfterExpiry(i, j) ==
    /\ i < j
    /\ responses[i].key = responses[j].key
    /\ responses[j].at > responses[i].resetTime
    /\ \A m \in (i + 1)..(j - 1) :
          responses[m].key = responses[i].key => responses[m].at <= responses[i].resetTime

\* C26: when a call for a key has been answered 429, the first call for
\* that key made after the resetTime of that window is admitted, and it
\* leaves the key with count 1 and a resetTime one window of the called
\* limiter after the time of the call.
C26_ResetAfterExpiry ==
    \A i, j \in 1..Len(responses) :
       (~responses[i].admitted /\ FirstAfterExpiry(i, j)) =>
          /\ responses[j].admitted
          /\ responses[j].count = 1
          /\ responses[j].resetTime = responses[j].at + windowMs[responses[j].limiter]
          /\ j = Len(responses) =>
                /\ responses[j].key \in DOMAIN store
                /\ store[responses[j].key] =
                      [count |-> 1, resetTime |-> responses[j].resetTime]

\* the upload limiter admits two calls, rejects a third, and admits a
\* fourth two seconds later
C26_Witness ==
    /\ Len(responses) = 4
    /\ \A i \in 1..4 : responses[i].limiter = "upload" /\ responses[i].key = "user:1"
    /\ ~responses[3].admitted
    /\ responses[3].resetTime = 1500
    /\ responses[4].at = 2000
    /\ responses[4].admitted
    /\ store["user:1"] = [count |-> 1, resetTime |-> 3500]

\* C27: every 429 carries a retryAfter greater than 0, whenever the call
\* is made, the very millisecond of resetTime included.
C27_RetryAfterPositive ==
    \A i \in 1..Len(responses) :
       ~responses[i].admitted =>
          /\ responses[i].status = 429
          /\ responses[i].retryAfter > 0

\* the same for the calls made before resetTime
RetryAfterPositiveBeforeReset ==
    \A i \in 1..Len(responses) :
       (~responses[i].admitted /\ responses[i].at < responses[i].resetTime) =>
          /\ responses[i].status = 429
          /\ responses[i].retryAfter > 0

\* the store limiter l would have after the first i calls if it had a store
\* of its own: the calls of the other limiters leave it as it is
RECURSIVE OwnStore(_, _)
OwnStore(l, i) ==
    IF i = 0 THEN <<>>
    ELSE IF responses[i].limiter = l
         THEN rateLimit(OwnStore(l, i - 1), l, responses[i].key, responses[i].at).store
         ELSE OwnStore(l, i - 1)

\* C30: the limiters count independently: every call is answered as its
\* limiter would answer it had the other limiters never been called, with
\* the same admission and the same resetTime.
C30_IndependentLimiters ==
    \A i \in 1..Len(responses) :
       LET l   == responses[i].limiter
           own == rateLimit(OwnStore(l, i - 1), l, responses[i].key, responses[i].at).response
       IN  /\ responses[i].admitted = own.admitted
           /\ responses[i].resetTime = own.resetTime


----------------------------------------------------------------------------
(* Properties of the webhook handler (SpecHook) *)

\* the request has a svix-signature header; a secret is configured
HasSignature  == request.signature.present
HasSecret     == request.env.dev.set \/ request.env.prod.set
ConfiguredKey == IF request.env.dev.set THEN request.env.dev.key ELSE request.env.prod.key

\* the signature verifies against the configured secret: the header has a
\* timestamp, and one of its v1 values is the HMAC, under the configured
\* secret, of that timestamp and the body
Verified ==
    /\ HasSignature /\ HasSecret
    /\ \E i \in 1..Len(request.signature.parts) :
          /\ request.signature.parts[i].prefix = "t="
          /\ \A j \in 1..(i - 1) : request.signature.parts[j].prefix # "t="
          /\ \E j \in 1..Len(request.signature.parts) :
                /\ request.signature.parts[j].prefix = "v1="
                /\ request.signature.parts[j].digest =
                      Digest(ConfiguredKey, request.signature.parts[i].text, request.body.text)

SupportedTypes == {"user.created", "user.updated", "user.deleted"}
Answered(status) == hookPc = "responded" /\ hookResponse = status

====
